---- MODULE Spec2Model ----
(***************************************************************************)
(* The analytics engine of the social media analytics pipeline             *)
(* (src/processor.py, class DataProcessor), driven the way                 *)
(* src/test_pipeline.py test_data_processing drives it: the posts are      *)
(* projected to a table, then each engine operation is applied to that     *)
(* table and its result kept by the caller.                                *)
(*                                                                         *)
(* Representation.                                                         *)
(*   - a timestamp (post_date) is a number of hours since an epoch; the    *)
(*     calendar date of a timestamp is its day number;                     *)
(*   - a value rounded to 2 decimals is kept as an integer number of       *)
(*     hundredths (185.0 is 18500);                                        *)
(*   - a list is a sequence, a dict is a function on its key set (the      *)
(*     empty dict is the empty function << >>);                            *)
(*   - a string that the engine slices (content) is a sequence of          *)
(*     one-character strings;                                              *)
(*   - the anomaly threshold is a number of tenths (2.0 is 20);            *)
(*   - an exception is a value: a call that may raise yields a record      *)
(*     that says so, and an Optional argument is a record with `given`;    *)
(*   - a SQLite table is the sequence of its rows in insertion order.      *)
(*                                                                         *)
(* Around the engine: BaseCollector._retry_request                         *)
(* (src/collectors/base_collector.py), DataStorage.save_to_database        *)
(* (src/storage.py) and collect_data and run_pipeline of                   *)
(* SocialMediaAnalyticsPipeline (src/pipeline.py), each stepped one        *)
(* external call (func, a collector method, a writer) at a time.           *)
(***************************************************************************)
EXTENDS Integers, Sequences, FiniteSets, TLC

VARIABLES raw_posts, posts, threshold, df, summaries, daily_metrics,
          top_posts, top_per_platform, moving_averages, platform_comparison,
          anomalies, pc,
          \* BaseCollector._retry_request: the collector's config, the
          \* argument, the loop variable, the calls of func made so far with
          \* their outcomes, the sleeps taken and how the method ended
          config, max_retries, attempt, calls, waits, retry_result,
          \* DataStorage: the three SQLite tables, the files of the output
          \* directory and the save_to_database calls made so far
          posts_table, daily_metrics_table, analytics_summaries, files, saves,
          \* SocialMediaAnalyticsPipeline: the initialized collectors in dict
          \* order, the arguments of the running call, the loop positions and
          \* locals of collect_data, how each collector's turn ended, the
          \* processor and storage methods called so far, what run_pipeline
          \* returned and where the call stands
          collectors, args, cur, query, platform_posts, all_posts, attempts,
          trace, results, phase

retry_vars == <<config, max_retries, attempt, calls, waits, retry_result>>

storage_vars == <<posts_table, daily_metrics_table, analytics_summaries, files, saves>>

pipeline_vars == <<collectors, args, cur, query, platform_posts, all_posts,
                   attempts, trace, results, phase>>

outer_vars == <<retry_vars, storage_vars, pipeline_vars>>

vars == <<raw_posts, posts, threshold, df, summaries, daily_metrics,
          top_posts, top_per_platform, moving_averages, platform_comparison,
          anomalies, pc, outer_vars>>

----------------------------------------------------------------------------
(* Bounds of the input families *)

MaxPosts == 3

MaxRank == 6

MaxDays == 31

MaxCompared == 3

MaxScored == 5

MaxContents == 2

MaxSummaryCalls == 2

MaxRaw == 3

MaxDuplicates == 3

MaxRetries == 4

MaxSaves == 2

MaxQueries == 2

----------------------------------------------------------------------------
(* Program constants *)

HoursPerDay == 24

TopNOverall == 5

TopNPerPlatform == 3

Window7d == 7

Window30d == 30

ContentLimit == 200

PreviewLimit == 100

LowBelow == 10

HighFrom == 100

\* detect_anomalies' default threshold, 2.0
DefaultThreshold == 20

\* max_retries: int = 3
DefaultMaxRetries == 3

\* self.config.get('RETRY_DELAY', 5)
DefaultRetryDelay == 5

\* a call that has not returned
NotReturned == [returned |-> FALSE]

\* the denominator of a threshold: tenths
ThresholdUnit == 10

Platform == {"twitter", "facebook", "youtube", "tiktok"}

\* the enum values in ascending string order (the order of sorted group keys)
PlatformOrder == <<"facebook", "tiktok", "twitter", "youtube">>

----------------------------------------------------------------------------
(* models.py *)

Post(post_id, platform, content, likes, comments, shares, post_date) ==
    [post_id |-> post_id, platform |-> platform, content |-> content,
     likes |-> likes, comments |-> comments, shares |-> shares,
     post_date |-> post_date]

DailyMetrics(date, platform, total_posts, total_likes, total_comments, total_shares, total_engagement, avg_engagement_per_post) ==
    [date |-> date, platform |-> platform, total_posts |-> total_posts,
     total_likes |-> total_likes, total_comments |-> total_comments,
     total_shares |-> total_shares, total_engagement |-> total_engagement,
     avg_engagement_per_post |-> avg_engagement_per_post]

TopPost(post_id, platform, content, engagement_score, likes, comments, shares, post_date) ==
    [post_id |-> post_id, platform |-> platform, content |-> content,
     engagement_score |-> engagement_score, likes |-> likes,
     comments |-> comments, shares |-> shares, post_date |-> post_date]

MovingAverage(platform, date, moving_avg_7d, moving_avg_30d) ==
    [platform |-> platform, date |-> date, moving_avg_7d |-> moving_avg_7d,
     moving_avg_30d |-> moving_avg_30d]

AnalyticsSummary(date, daily_metrics_, top_posts_overall, top_posts_per_platform, moving_averages_) ==
    [date |-> date, daily_metrics |-> daily_metrics_,
     top_posts_overall |-> top_posts_overall,
     top_posts_per_platform |-> top_posts_per_platform,
     moving_averages |-> moving_averages_]

----------------------------------------------------------------------------
(* Helpers standing for the pandas / numpy primitives the engine uses *)

\* .dt.date : the calendar date of a timestamp
DateOf(post_date) == post_date \div HoursPerDay

\* pd.to_numeric(errors='coerce').fillna(0)
ToNumeric(v) == IF v \in Int THEN v ELSE 0

\* the sum of one column over the rows lo..hi of a frame
RECURSIVE SumColRange(_, _, _, _)
SumColRange(frame, col, lo, hi) ==
    IF lo > hi THEN 0
    ELSE IF lo = hi THEN frame[lo][col]
    ELSE LET mid == (lo + hi) \div 2
         IN  SumColRange(frame, col, lo, mid) + SumColRange(frame, col, mid + 1, hi)

\* Series.sum() of one column of a frame
SumCol(frame, col) == SumColRange(frame, col, 1, Len(frame))

\* round(num / den, 2) in hundredths, ties to even
Round2(num, den) ==
    LET q == (100 * num) \div den
        r == (100 * num) % den
    IN  IF 2 * r < den THEN q
        ELSE IF 2 * r > den THEN q + 1
        ELSE IF q % 2 = 0 THEN q ELSE q + 1

Indices(s) == [i \in 1..Len(s) |-> i]

SetMin(S) == CHOOSE x \in S : \A y \in S : x <= y

SetMax(S) == CHOOSE x \in S : \A y \in S : y <= x

\* the indices of idxs whose key is one of vals[lo..hi], grouped by key in
\* the order of vals, each group in the order of idxs
RECURSIVE ConcatBuckets(_, _, _, _, _)
ConcatBuckets(idxs, key, vals, lo, hi) ==
    IF lo = hi
    THEN LET HasKey(i) == key[i] = vals[lo]
         IN  SelectSeq(idxs, HasKey)
    ELSE LET mid == (lo + hi) \div 2
         IN  ConcatBuckets(idxs, key, vals, lo, mid)
                \o ConcatBuckets(idxs, key, vals, mid + 1, hi)

\* argsort(kind="mergesort"): the indices idxs in ascending key order,
\* stable (indices with equal keys keep their order)
StableArgSort(idxs, key) ==
    LET keys == {key[idxs[a]] : a \in DOMAIN idxs}
        lo == SetMin(keys)
        hi == SetMax(keys)
        IsKey(v) == v \in keys
        sorted_keys == SelectSeq([k \in 1..(hi - lo + 1) |-> lo + k - 1], IsKey)
    IN  IF idxs = << >> THEN << >>
        ELSE ConcatBuckets(idxs, key, sorted_keys, 1, Len(sorted_keys))

\* Series.unique(): the distinct values of a column in order of appearance
Unique(frame, col) ==
    LET IsFirst(i) == \A j \in 1..(i - 1) : frame[j][col] # frame[i][col]
        firsts == SelectSeq(Indices(frame), IsFirst)
    IN  [k \in DOMAIN firsts |-> frame[firsts[k]][col]]

\* df[df[col] == v]
Filter(frame, col, v) ==
    LET Keep(row) == row[col] = v
    IN  SelectSeq(frame, Keep)

Range(s) == {s[i] : i \in DOMAIN s}

\* df[col] raises KeyError for a column the table does not have
KeyError(frame, cols) == \E i \in DOMAIN frame : ~(cols \subseteq DOMAIN frame[i])

\* the distinct dates of a frame in ascending order (sorted group keys)
SortedDates(frame) ==
    LET dates == {frame[i].date : i \in DOMAIN frame}
        lo == SetMin(dates)
        hi == SetMax(dates)
        Present(d) == d \in dates
    IN  IF frame = << >> THEN << >>
        ELSE SelectSeq([k \in 1..(hi - lo + 1) |-> lo + k - 1], Present)

----------------------------------------------------------------------------
(* DataProcessor.process_posts: one row per post, with the derived columns *)

\* a mutant: the shares are left out of the engagement score
RowScoreWithoutShares(post) ==
    LET likes == ToNumeric(post.likes)
        comments == ToNumeric(post.comments)
        shares == ToNumeric(post.shares)
    IN  [post_id |-> post.post_id, platform |-> post.platform,
         content |-> post.content,
         likes |-> likes, comments |-> comments, shares |-> shares,
         post_date |-> post.post_date,
         date |-> DateOf(post.post_date),
         engagement_score |-> likes + comments]

Row(post) ==
    LET likes == ToNumeric(post.likes)
        comments == ToNumeric(post.comments)
        shares == ToNumeric(post.shares)
    IN  [post_id |-> post.post_id, platform |-> post.platform,
         content |-> post.content,
         likes |-> likes, comments |-> comments, shares |-> shares,
         post_date |-> post.post_date,
         date |-> DateOf(post.post_date),
         engagement_score |-> likes + comments + shares]

\* a mutant: a post whose post_id was seen earlier in the input is dropped
process_posts_dedup(ps) ==
    LET IsFirst(i) == \A j \in 1..(i - 1) : ps[j].post_id # ps[i].post_id
        firsts == SelectSeq([i \in DOMAIN ps |-> i], IsFirst)
    IN  IF ps = << >> THEN << >>
        ELSE [k \in DOMAIN firsts |-> Row(ps[firsts[k]])]

process_posts(ps) ==
    IF ps = << >> THEN << >>
    ELSE [i \in DOMAIN ps |-> Row(ps[i])]

----------------------------------------------------------------------------
(* DataProcessor.compute_daily_metrics *)

\* a mutant: one key for every date and every platform of the frame
GroupKeysCrossProduct(frame) ==
    LET dates == SortedDates(frame)
        n == Len(PlatformOrder)
        grid == [k \in 1..(Len(dates) * n) |->
                    <<dates[((k - 1) \div n) + 1], PlatformOrder[((k - 1) % n) + 1]>>]
        Present(key) == \E i \in DOMAIN frame : frame[i].platform = key[2]
    IN  SelectSeq(grid, Present)

\* df.groupby(['date', 'platform']): the keys of the groups, sorted ascending
GroupKeys(frame) ==
    LET dates == SortedDates(frame)
        n == Len(PlatformOrder)
        grid == [k \in 1..(Len(dates) * n) |->
                    <<dates[((k - 1) \div n) + 1], PlatformOrder[((k - 1) % n) + 1]>>]
        Present(key) == \E i \in DOMAIN frame :
                            frame[i].date = key[1] /\ frame[i].platform = key[2]
    IN  SelectSeq(grid, Present)

\* a mutant: the group of a key holds every row of its date
GroupRowsByDateOnly(frame, key) ==
    LET Keep(row) == row.date = key[1]
    IN  SelectSeq(frame, Keep)

\* the rows of one group, in table order
GroupRows(frame, key) ==
    LET Keep(row) == row.date = key[1] /\ row.platform = key[2]
    IN  SelectSeq(frame, Keep)

\* a mutant: the average is taken over the likes alone
GroupMetricsAvgOfLikes(date, platform, group) ==
    LET total_posts == Len(group)
        total_likes == SumCol(group, "likes")
        total_comments == SumCol(group, "comments")
        total_shares == SumCol(group, "shares")
        total_engagement == SumCol(group, "engagement_score")
        avg_engagement == IF total_posts > 0
                          THEN Round2(total_likes, total_posts) ELSE 0
    IN  DailyMetrics(date, platform, total_posts, total_likes, total_comments,
                     total_shares, total_engagement, avg_engagement)

\* the body of the loop over the groups
GroupMetrics(date, platform, group) ==
    LET total_posts == Len(group)
        total_likes == SumCol(group, "likes")
        total_comments == SumCol(group, "comments")
        total_shares == SumCol(group, "shares")
        total_engagement == SumCol(group, "engagement_score")
        avg_engagement == IF total_posts > 0
                          THEN Round2(total_engagement, total_posts) ELSE 0
    IN  DailyMetrics(date, platform, total_posts, total_likes, total_comments,
                     total_shares, total_engagement, avg_engagement)

\* a mutant: an empty table yields one all-zero record
compute_daily_metrics_zero_row(frame) ==
    IF frame = << >> THEN <<DailyMetrics(0, "twitter", 0, 0, 0, 0, 0, 0)>>
    ELSE IF KeyError(frame, {"date", "platform", "likes", "comments", "shares",
                             "engagement_score"})
    THEN << >>
    ELSE LET keys == GroupKeys(frame)
         IN  [k \in DOMAIN keys |->
                GroupMetrics(keys[k][1], keys[k][2], GroupRows(frame, keys[k]))]

\* the body runs inside try/except: a KeyError is logged and [] returned
compute_daily_metrics(frame) ==
    IF frame = << >> THEN << >>
    ELSE IF KeyError(frame, {"date", "platform", "likes", "comments", "shares",
                             "engagement_score"})
    THEN << >>
    ELSE LET keys == GroupKeys(frame)
         IN  [k \in DOMAIN keys |->
                GroupMetrics(keys[k][1], keys[k][2], GroupRows(frame, keys[k]))]

----------------------------------------------------------------------------
(* DataProcessor.get_top_posts / get_top_posts_per_platform *)

\* a mutant: the n smallest rows (DataFrame.nsmallest)
NSmallest(frame, n, col) ==
    LET narr == Len(frame)
        m == IF n < narr THEN n ELSE narr
        arr == [i \in 1..narr |-> frame[i][col]]
        inds == SubSeq(StableArgSort(Indices(frame), arr), 1, m)
    IN  IF narr = 0 THEN << >> ELSE [k \in 1..m |-> frame[inds[k]]]

\* a mutant: keep='last', ties resolved towards the later rows
NLargestKeepLast(frame, n, col) ==
    LET narr == Len(frame)
        m == IF n < narr THEN n ELSE narr
        rev == [i \in 1..narr |-> frame[narr + 1 - i]]
        arr == [i \in 1..narr |-> 0 - rev[i][col]]
        inds == SubSeq(StableArgSort(Indices(rev), arr), 1, m)
    IN  IF narr = 0 THEN << >> ELSE [k \in 1..m |-> rev[inds[k]]]

\* DataFrame.nlargest(n, col), keep='first': the k-th largest value is found,
\* the rows at least as large are sorted by a stable sort of the negated
\* column, and the first n of them are kept
NLargest(frame, n, col) ==
    LET narr == Len(frame)
        m == IF n < narr THEN n ELSE narr
        arr == [i \in 1..narr |-> 0 - frame[i][col]]
        kth_val == arr[StableArgSort(Indices(frame), arr)[m]]
        AtMostKth(i) == arr[i] <= kth_val
        ns == SelectSeq(Indices(frame), AtMostKth)
        inds == SubSeq(StableArgSort(ns, arr), 1, m)
    IN  IF narr = 0 THEN << >> ELSE [k \in 1..m |-> frame[inds[k]]]

\* a mutant: a string of exactly n characters is cut too
PreviewCutsAtLimit(s, n) ==
    IF Len(s) >= n THEN SubSeq(s, 1, n) \o <<".", ".", ".">> ELSE s

\* s[:n] + "..." if len(s) > n else s
Preview(s, n) ==
    IF Len(s) > n THEN SubSeq(s, 1, n) \o <<".", ".", ".">> ELSE s

\* the TopPost built from one row of the table
TopPostOf(row) ==
    TopPost(row.post_id, row.platform, Preview(row.content, ContentLimit),
            row.engagement_score, row.likes, row.comments, row.shares,
            row.post_date)

\* the columns a TopPost is built from
TopPostColumns ==
    {"post_id", "platform", "content", "engagement_score", "likes", "comments",
     "shares", "post_date"}

get_top_posts(frame, top_n) ==
    IF frame = << >> THEN << >>
    ELSE IF KeyError(frame, TopPostColumns) THEN << >>
    ELSE LET top_posts_df == NLargest(frame, top_n, "engagement_score")
         IN  [k \in DOMAIN top_posts_df |-> TopPostOf(top_posts_df[k])]

\* a mutant: every platform of the enum gets a key
PlatformsOfEnum(frame) == PlatformOrder

\* df['platform'].unique()
PlatformsOf(frame) == Unique(frame, "platform")

\* a mutant: the ranking of a platform is taken over the whole table
PlatformFrameUnfiltered(frame, platform) == frame

\* df[df['platform'] == platform]
PlatformFrame(frame, platform) == Filter(frame, "platform", platform)

get_top_posts_per_platform(frame, top_n) ==
    IF frame = << >> THEN << >>
    ELSE IF KeyError(frame, TopPostColumns) THEN << >>
    ELSE [platform \in Range(PlatformsOf(frame)) |->
            LET top_posts_df == NLargest(PlatformFrame(frame, platform), top_n,
                                         "engagement_score")
            IN  [k \in DOMAIN top_posts_df |-> TopPostOf(top_posts_df[k])]]

----------------------------------------------------------------------------
(* DataProcessor.compute_moving_averages *)

\* df.sort_values(col): the rows in ascending order of the column
SortValues(frame, col) ==
    LET key == [i \in DOMAIN frame |-> frame[i][col]]
        idx == StableArgSort(Indices(frame), key)
    IN  [k \in DOMAIN frame |-> frame[idx[k]]]

\* groupby(post_date.dt.date)['engagement_score'].sum(), sorted by date:
\* one bucket per date on which the platform has a post
DailyEngagement(platform_df) ==
    LET by_date == [i \in DOMAIN platform_df |->
                      [date |-> DateOf(platform_df[i].post_date),
                       engagement_score |-> platform_df[i].engagement_score]]
        dates == SortedDates(by_date)
    IN  [k \in DOMAIN dates |->
            [date |-> dates[k],
             engagement |-> SumCol(Filter(by_date, "date", dates[k]),
                                   "engagement_score")]]

\* the sum of the buckets lo..hi of a daily series
SumRange(daily, lo, hi) == SumColRange(daily, "engagement", lo, hi)

\* Series.rolling(window, min_periods=1).mean(): a Series with, for every
\* bucket, the mean <<sum, count>> of the last `window` buckets up to it
Rolling(daily, window) ==
    [kind |-> "Series",
     values |-> [i \in DOMAIN daily |->
                   LET lo == IF i - window + 1 > 1 THEN i - window + 1 ELSE 1
                   IN  <<SumRange(daily, lo, i), i - lo + 1>>]]

\* Series.mean(): a scalar, the mean <<sum, count>> of all the buckets
Mean(daily) ==
    [kind |-> "scalar", values |-> <<SumRange(daily, 1, Len(daily)), Len(daily)>>]

\* len(x) is defined for a Series and raises TypeError for a scalar
HasLen(x) == x.kind = "Series"

\* x.iloc[-1] if len(x) > 0 else 0
Latest(x) == IF Len(x.values) > 0 THEN x.values[Len(x.values)] ELSE <<0, 1>>

\* the body of the loop over the platforms: the MovingAverage of one
\* platform, or the exception the body raises
PlatformTrend(platform_df, platform, window_7d, window_30d) ==
    LET daily_engagement == DailyEngagement(platform_df)
        moving_avg_7d == IF Len(daily_engagement) >= window_7d
                         THEN Rolling(daily_engagement, window_7d)
                         ELSE Mean(daily_engagement)
        moving_avg_30d == IF Len(daily_engagement) >= window_30d
                          THEN Rolling(daily_engagement, window_30d)
                          ELSE Mean(daily_engagement)
        latest_date == SetMax({daily_engagement[i].date :
                                   i \in DOMAIN daily_engagement})
    IN  IF ~HasLen(moving_avg_7d) \/ ~HasLen(moving_avg_30d)
        THEN [raised |-> TRUE, value |-> << >>]
        ELSE [raised |-> FALSE,
              value |-> MovingAverage(platform, latest_date,
                          Round2(Latest(moving_avg_7d)[1], Latest(moving_avg_7d)[2]),
                          Round2(Latest(moving_avg_30d)[1], Latest(moving_avg_30d)[2]))]

\* a mutant: the conversion and the sort act on the caller's table
TableAfterMovingAveragesNoCopy(frame) ==
    IF frame = << >> \/ KeyError(frame, {"post_date"}) THEN frame
    ELSE SortValues(frame, "post_date")

\* the caller's table after compute_moving_averages: df.copy() is taken
\* first, and the conversion and the sort act on the copy
TableAfterMovingAverages(frame) == frame

\* the loop runs inside try/except: an exception raised for any platform
\* discards what was computed and the method returns []
compute_moving_averages(frame, window_7d, window_30d) ==
    IF frame = << >> THEN << >>
    ELSE IF KeyError(frame, {"post_date", "platform", "engagement_score"})
    THEN << >>
    ELSE LET df_sorted == SortValues(frame, "post_date")
             platforms == PlatformsOf(df_sorted)
             per_platform == [k \in DOMAIN platforms |->
                                PlatformTrend(PlatformFrame(df_sorted, platforms[k]),
                                              platforms[k], window_7d, window_30d)]
         IN  IF \E k \in DOMAIN per_platform : per_platform[k].raised
             THEN << >>
             ELSE [k \in DOMAIN per_platform |-> per_platform[k].value]

----------------------------------------------------------------------------
(* DataProcessor.generate_analytics_summary *)

\* a mutant: every DailyMetrics carries the date the summary is generated
generate_analytics_summary_dated_today(ps, today) ==
    LET frame == process_posts(ps)
        daily == compute_daily_metrics(frame)
    IN  IF frame = << >>
        THEN AnalyticsSummary(today, << >>, << >>, << >>, << >>)
        ELSE AnalyticsSummary(today,
                 [k \in DOMAIN daily |-> [daily[k] EXCEPT !.date = today]],
                 get_top_posts(frame, TopNOverall),
                 get_top_posts_per_platform(frame, TopNPerPlatform),
                 compute_moving_averages(frame, Window7d, Window30d))

\* today is the calendar date datetime.now() gives when the call is made
generate_analytics_summary(ps, today) ==
    LET frame == process_posts(ps)
    IN  IF frame = << >>
        THEN AnalyticsSummary(today, << >>, << >>, << >>, << >>)
        ELSE AnalyticsSummary(today,
                 compute_daily_metrics(frame),
                 get_top_posts(frame, TopNOverall),
                 get_top_posts_per_platform(frame, TopNPerPlatform),
                 compute_moving_averages(frame, Window7d, Window30d))

----------------------------------------------------------------------------
(* DataProcessor.get_platform_comparison *)

\* a mutant: the medium bucket starts above 10
EngagementDistributionOpenMedium(platform_df) ==
    LET Low(row) == row.engagement_score < LowBelow
        Medium(row) == /\ row.engagement_score > LowBelow
                       /\ row.engagement_score < HighFrom
        High(row) == row.engagement_score >= HighFrom
    IN  [low |-> Len(SelectSeq(platform_df, Low)),
         medium |-> Len(SelectSeq(platform_df, Medium)),
         high |-> Len(SelectSeq(platform_df, High))]

\* a mutant: a score of exactly 100 is medium
EngagementDistributionHighAbove(platform_df) ==
    LET Low(row) == row.engagement_score < LowBelow
        Medium(row) == /\ row.engagement_score >= LowBelow
                       /\ row.engagement_score <= HighFrom
        High(row) == row.engagement_score > HighFrom
    IN  [low |-> Len(SelectSeq(platform_df, Low)),
         medium |-> Len(SelectSeq(platform_df, Medium)),
         high |-> Len(SelectSeq(platform_df, High))]

\* 'engagement_distribution': the three bucket counts of one platform
EngagementDistribution(platform_df) ==
    LET Low(row) == row.engagement_score < LowBelow
        Medium(row) == /\ row.engagement_score >= LowBelow
                       /\ row.engagement_score < HighFrom
        High(row) == row.engagement_score >= HighFrom
    IN  [low |-> Len(SelectSeq(platform_df, Low)),
         medium |-> Len(SelectSeq(platform_df, Medium)),
         high |-> Len(SelectSeq(platform_df, High))]

\* a mutant: total_engagement is the sum of the likes
PlatformStatsEngagementOfLikes(platform_df) ==
    LET n == Len(platform_df)
    IN  [total_posts |-> n,
         total_engagement |-> SumCol(platform_df, "likes"),
         avg_engagement_per_post |->
             Round2(SumCol(platform_df, "engagement_score"), n),
         avg_likes_per_post |-> Round2(SumCol(platform_df, "likes"), n),
         avg_comments_per_post |-> Round2(SumCol(platform_df, "comments"), n),
         avg_shares_per_post |-> Round2(SumCol(platform_df, "shares"), n),
         top_engagement_post |->
             SetMax({platform_df[i].engagement_score : i \in DOMAIN platform_df}),
         engagement_distribution |-> EngagementDistribution(platform_df)]

\* the stats of one platform; the averages in hundredths
PlatformStats(platform_df) ==
    LET n == Len(platform_df)
    IN  [total_posts |-> n,
         total_engagement |-> SumCol(platform_df, "engagement_score"),
         avg_engagement_per_post |->
             Round2(SumCol(platform_df, "engagement_score"), n),
         avg_likes_per_post |-> Round2(SumCol(platform_df, "likes"), n),
         avg_comments_per_post |-> Round2(SumCol(platform_df, "comments"), n),
         avg_shares_per_post |-> Round2(SumCol(platform_df, "shares"), n),
         top_engagement_post |->
             SetMax({platform_df[i].engagement_score : i \in DOMAIN platform_df}),
         engagement_distribution |-> EngagementDistribution(platform_df)]

get_platform_comparison(frame) ==
    IF frame = << >> THEN << >>
    ELSE IF KeyError(frame, {"platform", "engagement_score", "likes",
                             "comments", "shares"})
    THEN << >>
    ELSE [platform \in Range(PlatformsOf(frame)) |->
            PlatformStats(PlatformFrame(frame, platform))]

----------------------------------------------------------------------------
(* DataProcessor.detect_anomalies.  With n scores of sum S, the mean is    *)
(* S / n and the population variance (n * sum of squares - S * S) / n^2;   *)
(* the z-score of a score x is |n * x - S| / sqrt(n^2 * variance).  The    *)
(* comparisons are made on the squares, in integers.                       *)

\* n^2 times the population variance of the scores
ScaledVariance(scores) ==
    LET n == Len(scores)
        sums == [i \in DOMAIN scores |-> [x |-> scores[i], xx |-> scores[i] * scores[i]]]
    IN  n * SumCol(sums, "xx") - SumCol(sums, "x") * SumCol(sums, "x")

\* a mutant: a z-score equal to the threshold is flagged too
ZScoreAtLeast(scores, i, threshold_) ==
    LET n == Len(scores)
        dev == n * scores[i] - SumCol([k \in DOMAIN scores |-> [x |-> scores[k]]], "x")
    IN  \/ threshold_ <= 0
        \/ dev * dev * ThresholdUnit * ThresholdUnit
              >= threshold_ * threshold_ * ScaledVariance(scores)

\* z_scores[i] > threshold, for scores of positive standard deviation
ZScoreAbove(scores, i, threshold_) ==
    LET n == Len(scores)
        dev == n * scores[i] - SumCol([k \in DOMAIN scores |-> [x |-> scores[k]]], "x")
    IN  \/ threshold_ < 0
        \/ dev * dev * ThresholdUnit * ThresholdUnit
              > threshold_ * threshold_ * ScaledVariance(scores)

\* a mutant: with a standard deviation of 0 every post is flagged
AnomalyIndicesZeroStdFlagsAll(scores, threshold_) ==
    LET Flagged(i) == ZScoreAbove(scores, i, threshold_)
    IN  IF ScaledVariance(scores) > 0
        THEN SelectSeq(Indices(scores), Flagged)
        ELSE Indices(scores)

\* np.where(z_scores > threshold)[0] if std_engagement > 0, else nothing
AnomalyIndices(scores, threshold_) ==
    LET Flagged(i) == ZScoreAbove(scores, i, threshold_)
    IN  IF ScaledVariance(scores) > 0
        THEN SelectSeq(Indices(scores), Flagged)
        ELSE << >>

\* the dict reported for one anomalous row (its rounded z_score, which is
\* not rational, and its author_name are left out)
Anomaly(row) ==
    [post_id |-> row.post_id, platform |-> row.platform,
     engagement_score |-> row.engagement_score,
     content_preview |-> Preview(row.content, PreviewLimit),
     post_date |-> row.post_date]

\* a mutant: mean and standard deviation are taken within each platform
detect_anomalies_within_platform(frame, threshold_) ==
    IF frame = << >> THEN << >>
    ELSE IF KeyError(frame, {"engagement_score"}) THEN << >>
    ELSE LET Flagged(i) ==
                 LET SamePlatform(k) == frame[k].platform = frame[i].platform
                     rows == SelectSeq(Indices(frame), SamePlatform)
                     scores == [k \in DOMAIN rows |-> frame[rows[k]].engagement_score]
                     pos == CHOOSE k \in DOMAIN rows : rows[k] = i
                 IN  /\ ScaledVariance(scores) > 0
                     /\ ZScoreAbove(scores, pos, threshold_)
             anomaly_indices == SelectSeq(Indices(frame), Flagged)
         IN  IF anomaly_indices # << >>
                /\ KeyError(frame, {"post_id", "platform", "content", "post_date"})
             THEN << >>
             ELSE [k \in DOMAIN anomaly_indices |-> Anomaly(frame[anomaly_indices[k]])]

\* the rows are read only when an anomaly is reported
detect_anomalies(frame, threshold_) ==
    IF frame = << >> THEN << >>
    ELSE IF KeyError(frame, {"engagement_score"}) THEN << >>
    ELSE LET engagement_scores == [i \in DOMAIN frame |-> frame[i].engagement_score]
             anomaly_indices == AnomalyIndices(engagement_scores, threshold_)
         IN  IF anomaly_indices # << >>
                /\ KeyError(frame, {"post_id", "platform", "content", "post_date"})
             THEN << >>
             ELSE [k \in DOMAIN anomaly_indices |-> Anomaly(frame[anomaly_indices[k]])]

----------------------------------------------------------------------------
(* BaseCollector (src/collectors/base_collector.py).  A date string is a   *)
(* record of the format it is written in and of the day and hour it        *)
(* spells; a string in no known format has format "other".                 *)

\* the formats _parse_date tries
DateFormats ==
    {"%Y-%m-%dT%H:%M:%S.%fZ", "%Y-%m-%dT%H:%M:%SZ", "%Y-%m-%d %H:%M:%S", "%Y-%m-%d"}

\* BaseCollector._parse_date: the timestamp a date string spells, and the
\* current time (datetime.utcnow()) for a string in none of the formats
parse_date(date_str, now) ==
    IF date_str.format \in DateFormats
    THEN date_str.day * HoursPerDay + date_str.hour
    ELSE now

\* raw_post.get('created_at', raw_post.get('date', ''))
CreatedAt(raw_post) ==
    IF "created_at" \in DOMAIN raw_post THEN raw_post.created_at
    ELSE IF "date" \in DOMAIN raw_post THEN raw_post.date
    ELSE [format |-> "other", day |-> 0, hour |-> 0]

\* BaseCollector.normalize_post
normalize_post(raw_post, platform, now) ==
    Post(raw_post.id, platform, raw_post.text, raw_post.likes,
         raw_post.comments, raw_post.shares,
         parse_date(CreatedAt(raw_post), now))

----------------------------------------------------------------------------
(* The inputs: bounded families of posts.  A post's post_id is its         *)
(* position in the input.                                                  *)

Alphabet == <<"a", "b", "c">>

\* a content of n characters: abcabc...
Content(n) == [i \in 1..n |-> Alphabet[((i - 1) % 3) + 1]]

\* (likes, comments, shares) of a post: scores 1, 5, 50 and 500
Engagement == {<<0, 1, 0>>, <<5, 0, 0>>, <<48, 1, 1>>, <<490, 7, 3>>}

\* two timestamps of one day and one of the next
AggShapes == {"twitter", "facebook"} \X Engagement \X {10, 30}

RankShapes == {"twitter", "facebook"} \X {1, 2}

\* scores on both sides of the bucket limits 10 and 100, split over likes,
\* comments and shares
CompareShapes ==
    {"twitter", "facebook"} \X {<<9, 0, 0>>, <<8, 1, 1>>, <<90, 9, 0>>, <<97, 2, 1>>}

ScoreShapes == {1, 2, 100}

\* (post_id, platform, likes): few post_ids, so that they repeat
DuplicateShapes == {1, 2} \X {"twitter", "facebook"} \X {1, 2}

\* 0.0, 0.5, 1.0, 1.9, 2.0 and 2.1
Thresholds == {0, 5, 10, 19, 20, 21}

\* contents around the limit of 200 characters
ContentShapes == {"twitter", "facebook"} \X {0, 199, 200, 201, 203}

\* one post a day on n consecutive days, each with c likes, but for day
\* `bump` (if any), which has three more
TrendSeries(platform, n, c, bump, first_id) ==
    [i \in 1..n |-> Post(first_id + i - 1, platform, Content(3),
                         c + (IF i = bump THEN 3 ELSE 0), 0, 0,
                         (i - 1) * HoursPerDay + 12)]

\* what follows the series in the input: nothing, one post of another
\* platform, a second post on the first day, a full series of another platform
TrendExtra(kind, n, c) ==
    CASE kind = "none" -> << >>
      [] kind = "other_platform" -> <<Post(n + 1, "facebook", Content(3), c, 1, 0, 13)>>
      [] kind = "same_day" -> <<Post(n + 1, "twitter", Content(3), 1, 0, 1, 20)>>
      [] kind = "other_series" -> TrendSeries("facebook", n, c + 1, 0, n + 1)

\* the days of a series of n days that may carry the bump: none (0), the
\* first day, or one of the last eight
BumpDays(n) == {b \in 0..n : b <= 1 \/ b >= n - 7}

TrendInputs ==
    UNION {{TrendSeries("twitter", n, c, bump, 1) \o TrendExtra(kind, n, c) :
              c \in {2, 5}, bump \in BumpDays(n),
              kind \in {"none", "other_platform", "same_day", "other_series"}} :
           n \in 0..MaxDays}

\* the shortest and the longest of the series above
SummaryInputs ==
    UNION {{TrendSeries("twitter", n, 2, bump, 1) \o TrendExtra(kind, n, 2) :
              bump \in {0, n},
              kind \in {"none", "other_platform", "same_day", "other_series"}} :
           n \in {0, 1, MaxDays - 1, MaxDays}}

\* the dates on which a summary may be generated
Today == {400, 401}

\* the times at which a record may be normalized
Now == {9600, 9630}

\* the date strings of a raw record: three well-formed ones, and one in no
\* known format
DateStrings ==
    {[format |-> "%Y-%m-%dT%H:%M:%SZ", day |-> 0, hour |-> 10],
     [format |-> "%Y-%m-%d %H:%M:%S", day |-> 1, hour |-> 6],
     [format |-> "%Y-%m-%d", day |-> 1, hour |-> 0],
     [format |-> "other", day |-> 0, hour |-> 0]}

\* the raw records of a platform: with a created_at, and without any date
RawPosts(id) ==
    {[id |-> id, text |-> Content(3), likes |-> 1, comments |-> 0, shares |-> 0,
      created_at |-> d] : d \in DateStrings}
    \cup {[id |-> id, text |-> Content(3), likes |-> 2, comments |-> 0,
           shares |-> 0]}

----------------------------------------------------------------------------
(* The driver: test_data_processing of src/test_pipeline.py *)

\* no _retry_request is running
RetryIdle ==
    /\ config = << >>
    /\ max_retries = DefaultMaxRetries
    /\ attempt = 0
    /\ calls = << >>
    /\ waits = << >>
    /\ retry_result = NotReturned

\* the tables as _init_sqlite_database creates them, and an empty output
\* directory
StorageEmpty ==
    /\ posts_table = << >>
    /\ daily_metrics_table = << >>
    /\ analytics_summaries = << >>
    /\ files = << >>
    /\ saves = << >>

\* no pipeline call is running
PipelineIdle ==
    /\ collectors = << >>
    /\ args = [entry |-> "none", queries |-> 0, user_ids |-> {},
               save_to_db |-> TRUE, save_to_files |-> TRUE]
    /\ cur = 1
    /\ query = 0
    /\ platform_posts = << >>
    /\ all_posts = << >>
    /\ attempts = << >>
    /\ trace = << >>
    /\ results = NotReturned
    /\ phase = "idle"

NoResults ==
    /\ df = << >>
    /\ summaries = << >>
    /\ daily_metrics = << >>
    /\ top_posts = << >>
    /\ top_per_platform = << >>
    /\ moving_averages = << >>
    /\ platform_comparison = << >>
    /\ anomalies = << >>
    /\ pc = "start"

\* nothing of the collectors, the storage or the pipeline is in use
Idle ==
    /\ RetryIdle
    /\ StorageEmpty
    /\ PipelineIdle

Init ==
    /\ raw_posts = << >>
    /\ posts = << >>
    /\ threshold = DefaultThreshold
    /\ NoResults
    /\ Idle

InitTrend ==
    /\ raw_posts = << >>
    /\ posts \in TrendInputs
    /\ threshold = DefaultThreshold
    /\ NoResults
    /\ Idle

InitSummary ==
    /\ raw_posts = << >>
    /\ posts \in SummaryInputs
    /\ threshold = DefaultThreshold
    /\ NoResults
    /\ Idle

InitAnomaly ==
    /\ raw_posts = << >>
    /\ posts = << >>
    /\ threshold \in Thresholds
    /\ NoResults
    /\ Idle

\* the caller appends one more post to the list it will hand to the engine:
\* any post over two platforms, two days and four scores
CreateSamplePost ==
    /\ pc = "start"
    /\ Len(posts) < MaxPosts
    /\ \E s \in AggShapes :
          posts' = Append(posts, Post(Len(posts) + 1, s[1], Content(3), s[2][1],
                                      s[2][2], s[2][3], s[3]))
    /\ UNCHANGED <<raw_posts, threshold, df, summaries, daily_metrics, top_posts,
                   top_per_platform, moving_averages, platform_comparison,
                   anomalies, pc>>
    /\ UNCHANGED outer_vars

\* the same with same-day posts over two platforms and two scores: more
\* posts than either ranking keeps, with ties
CreateRankedPost ==
    /\ pc = "start"
    /\ Len(posts) < MaxRank
    /\ \E s \in RankShapes :
          posts' = Append(posts, Post(Len(posts) + 1, s[1], Content(3), s[2], 0,
                                      0, 10))
    /\ UNCHANGED <<raw_posts, threshold, df, summaries, daily_metrics, top_posts,
                   top_per_platform, moving_averages, platform_comparison,
                   anomalies, pc>>
    /\ UNCHANGED outer_vars

\* the same with same-day posts whose scores lie around the bucket limits
CreateComparedPost ==
    /\ pc = "start"
    /\ Len(posts) < MaxCompared
    /\ \E s \in CompareShapes :
          posts' = Append(posts, Post(Len(posts) + 1, s[1], Content(3), s[2][1],
                                      s[2][2], s[2][3], 10))
    /\ UNCHANGED <<raw_posts, threshold, df, summaries, daily_metrics, top_posts,
                   top_per_platform, moving_averages, platform_comparison,
                   anomalies, pc>>
    /\ UNCHANGED outer_vars

\* the same with same-day posts scoring 1, 2 or 100, those scoring 100 on
\* facebook and the others on twitter
CreateScoredPost ==
    /\ pc = "start"
    /\ Len(posts) < MaxScored
    /\ \E x \in ScoreShapes :
          posts' = Append(posts, Post(Len(posts) + 1,
                                      IF x = 100 THEN "facebook" ELSE "twitter",
                                      Content(3), x, 0, 0, 10))
    /\ UNCHANGED <<raw_posts, threshold, df, summaries, daily_metrics, top_posts,
                   top_per_platform, moving_averages, platform_comparison,
                   anomalies, pc>>
    /\ UNCHANGED outer_vars

\* the same with same-day posts whose post_ids repeat, on one platform or
\* across platforms
CreateDuplicatePost ==
    /\ pc = "start"
    /\ Len(posts) < MaxDuplicates
    /\ \E s \in DuplicateShapes :
          posts' = Append(posts, Post(s[1], s[2], Content(3), s[3], 0, 0, 10))
    /\ UNCHANGED <<raw_posts, threshold, df, summaries, daily_metrics, top_posts,
                   top_per_platform, moving_averages, platform_comparison,
                   anomalies, pc>>
    /\ UNCHANGED outer_vars

\* the same with contents of 0, 199, 200, 201 and 203 characters; a post
\* has as many likes as its position
CreateContentPost ==
    /\ pc = "start"
    /\ Len(posts) < MaxContents
    /\ \E s \in ContentShapes :
          posts' = Append(posts, Post(Len(posts) + 1, s[1], Content(s[2]),
                                      Len(posts) + 1, 0, 0, 10))
    /\ UNCHANGED <<raw_posts, threshold, df, summaries, daily_metrics, top_posts,
                   top_per_platform, moving_averages, platform_comparison,
                   anomalies, pc>>
    /\ UNCHANGED outer_vars

\* a collector normalizes one more raw record of its platform and adds the
\* post to the list handed to the engine
NormalizePost ==
    /\ pc = "start"
    /\ Len(posts) < MaxRaw
    /\ \E raw_post \in RawPosts(Len(posts) + 1), now \in Now :
          /\ raw_posts' = Append(raw_posts, raw_post)
          /\ posts' = Append(posts, normalize_post(raw_post, "twitter", now))
    /\ UNCHANGED <<threshold, df, summaries, daily_metrics, top_posts,
                   top_per_platform, moving_averages, platform_comparison,
                   anomalies, pc>>
    /\ UNCHANGED outer_vars

ProcessPosts ==
    /\ pc = "start"
    /\ df' = process_posts(posts)
    /\ pc' = "processed"
    /\ UNCHANGED <<raw_posts, posts, threshold, summaries, daily_metrics,
                   top_posts, top_per_platform, moving_averages,
                   platform_comparison, anomalies>>
    /\ UNCHANGED outer_vars

\* the table reaches the engine without one of its columns
CorruptTable ==
    /\ pc = "processed"
    /\ df # << >>
    /\ ~KeyError(df, {"engagement_score", "likes"})
    /\ \E col \in {"engagement_score", "likes"} :
          df' = [i \in DOMAIN df |->
                    [c \in (DOMAIN df[i]) \ {col} |-> df[i][c]]]
    /\ UNCHANGED <<raw_posts, posts, threshold, summaries, daily_metrics,
                   top_posts, top_per_platform, moving_averages,
                   platform_comparison, anomalies, pc>>
    /\ UNCHANGED outer_vars

\* a call of generate_analytics_summary on the posts, at any point after
\* the table was built
GenerateAnalyticsSummary ==
    /\ pc # "start"
    /\ Len(summaries) < MaxSummaryCalls
    /\ \E today \in Today :
          summaries' = Append(summaries, generate_analytics_summary(posts, today))
    /\ UNCHANGED <<raw_posts, posts, threshold, df, daily_metrics, top_posts,
                   top_per_platform, moving_averages, platform_comparison,
                   anomalies, pc>>
    /\ UNCHANGED outer_vars

ComputeDailyMetrics ==
    /\ pc = "processed"
    /\ daily_metrics' = compute_daily_metrics(df)
    /\ pc' = "daily"
    /\ UNCHANGED <<raw_posts, posts, threshold, df, summaries, top_posts,
                   top_per_platform, moving_averages, platform_comparison,
                   anomalies>>
    /\ UNCHANGED outer_vars

GetTopPosts ==
    /\ pc = "daily"
    /\ top_posts' = get_top_posts(df, TopNOverall)
    /\ pc' = "top"
    /\ UNCHANGED <<raw_posts, posts, threshold, df, summaries, daily_metrics,
                   top_per_platform, moving_averages, platform_comparison,
                   anomalies>>
    /\ UNCHANGED outer_vars

GetTopPostsPerPlatform ==
    /\ pc = "top"
    /\ top_per_platform' = get_top_posts_per_platform(df, TopNPerPlatform)
    /\ pc' = "per_platform"
    /\ UNCHANGED <<raw_posts, posts, threshold, df, summaries, daily_metrics,
                   top_posts, moving_averages, platform_comparison, anomalies>>
    /\ UNCHANGED outer_vars

ComputeMovingAverages ==
    /\ pc = "per_platform"
    /\ moving_averages' = compute_moving_averages(df, Window7d, Window30d)
    /\ df' = TableAfterMovingAverages(df)
    /\ pc' = "moving"
    /\ UNCHANGED <<raw_posts, posts, threshold, summaries, daily_metrics,
                   top_posts, top_per_platform, platform_comparison, anomalies>>
    /\ UNCHANGED outer_vars

GetPlatformComparison ==
    /\ pc = "moving"
    /\ platform_comparison' = get_platform_comparison(df)
    /\ pc' = "comparison"
    /\ UNCHANGED <<raw_posts, posts, threshold, df, summaries, daily_metrics,
                   top_posts, top_per_platform, moving_averages, anomalies>>
    /\ UNCHANGED outer_vars

DetectAnomalies ==
    /\ pc = "comparison"
    /\ anomalies' = detect_anomalies(df, threshold)
    /\ pc' = "anomalies"
    /\ UNCHANGED <<raw_posts, posts, threshold, df, summaries, daily_metrics,
                   top_posts, top_per_platform, moving_averages,
                   platform_comparison>>
    /\ UNCHANGED outer_vars

Engine ==
    \/ ProcessPosts
    \/ ComputeDailyMetrics
    \/ GetTopPosts
    \/ GetTopPostsPerPlatform
    \/ ComputeMovingAverages
    \/ GetPlatformComparison
    \/ DetectAnomalies

Next == CreateSamplePost \/ Engine

NextRank == CreateRankedPost \/ Engine

NextCompare == CreateComparedPost \/ Engine

NextAnomaly == CreateScoredPost \/ Engine

NextContent == CreateContentPost \/ Engine

NextDuplicates == CreateDuplicatePost \/ Engine

NextSummary == GenerateAnalyticsSummary \/ Engine

NextCorrupt == CorruptTable \/ Engine

NextCollect == NormalizePost \/ Engine

Spec == Init /\ [][Next]_vars

SpecRank == Init /\ [][NextRank]_vars

SpecTrend == InitTrend /\ [][Engine]_vars

SpecCompare == Init /\ [][NextCompare]_vars

SpecAnomaly == InitAnomaly /\ [][NextAnomaly]_vars

SpecContent == Init /\ [][NextContent]_vars

SpecDuplicates == Init /\ [][NextDuplicates]_vars

SpecSummary == InitSummary /\ [][NextSummary]_vars

SpecCorrupt == InitSummary /\ [][NextCorrupt]_vars

SpecCollect == Init /\ [][NextCollect]_vars

----------------------------------------------------------------------------
(* BaseCollector._retry_request *)

\* the engine is not in use
EngineIdle ==
    /\ raw_posts = << >>
    /\ posts = << >>
    /\ threshold = DefaultThreshold
    /\ NoResults

\* the collector's config: without RETRY_DELAY, or with a RETRY_DELAY of 1
Configs == {<< >>, [RETRY_DELAY |-> 1]}

\* what one call of func does: it returns a response or raises
CallOutcomes ==
    {[raised |-> FALSE, value |-> "response"]}
    \cup {[raised |-> TRUE, value |-> e] : e \in {"Timeout", "HTTPError", "RateLimit"}}

\* 2 ** n
RECURSIVE Pow2(_)
Pow2(n) == IF n = 0 THEN 1 ELSE 2 * Pow2(n - 1)

\* self.config.get('RETRY_DELAY', 5)
RetryDelay(config_) ==
    IF "RETRY_DELAY" \in DOMAIN config_ THEN config_.RETRY_DELAY
    ELSE DefaultRetryDelay

\* a mutant: the wait grows with the attempt number instead of doubling
WaitTimeLinear(attempt_, config_) == 2 * attempt_ * RetryDelay(config_)

\* wait_time of a failed attempt that is not the last
WaitTime(attempt_, config_) == Pow2(attempt_) * RetryDelay(config_)

InitRetry ==
    /\ EngineIdle
    /\ StorageEmpty
    /\ PipelineIdle
    /\ config \in Configs
    /\ max_retries \in 0..MaxRetries
    /\ attempt = 0
    /\ calls = << >>
    /\ waits = << >>
    /\ retry_result = NotReturned

\* one pass of the loop body: func is called; its value is returned, or its
\* exception is re-raised on the last attempt, or the method sleeps and goes
\* on to the next attempt
RetryCall ==
    /\ retry_result = NotReturned
    /\ attempt < max_retries
    /\ \E outcome \in CallOutcomes :
          /\ calls' = Append(calls, outcome)
          /\ IF ~outcome.raised
             THEN /\ retry_result' = [returned |-> TRUE, raised |-> FALSE,
                                      value |-> outcome.value]
                  /\ UNCHANGED <<attempt, waits>>
             ELSE IF attempt = max_retries - 1
             THEN /\ retry_result' = [returned |-> TRUE, raised |-> TRUE,
                                      value |-> outcome.value]
                  /\ UNCHANGED <<attempt, waits>>
             ELSE /\ waits' = Append(waits, WaitTime(attempt, config))
                  /\ attempt' = attempt + 1
                  /\ UNCHANGED retry_result
    /\ UNCHANGED <<config, max_retries, storage_vars, pipeline_vars>>
    /\ UNCHANGED <<raw_posts, posts, threshold, df, summaries, daily_metrics,
                   top_posts, top_per_platform, moving_averages,
                   platform_comparison, anomalies, pc>>

\* range(max_retries) is exhausted without a call: the method falls off its
\* end and returns None (max_retries <= 0)
RetryFallsThrough ==
    /\ retry_result = NotReturned
    /\ attempt >= max_retries
    /\ retry_result' = [returned |-> TRUE, raised |-> FALSE, value |-> "None"]
    /\ UNCHANGED <<config, max_retries, attempt, calls, waits, storage_vars,
                   pipeline_vars>>
    /\ UNCHANGED <<raw_posts, posts, threshold, df, summaries, daily_metrics,
                   top_posts, top_per_platform, moving_averages,
                   platform_comparison, anomalies, pc>>

NextRetry == RetryCall \/ RetryFallsThrough

SpecRetry == InitRetry /\ [][NextRetry]_vars

----------------------------------------------------------------------------
(* DataStorage.save_to_database *)

\* an Optional[AnalyticsSummary] argument: None, or a summary
NoSummary == [given |-> FALSE]

Some(summary) == [given |-> TRUE, value |-> summary]

\* x.value, for x the platform field of a Post or of a DailyMetrics: every
\* model is declared with use_enum_values, so the field holds the enum's
\* value, a plain str, which has no attribute `value`: the lookup raises
\* AttributeError
HasValueAttribute(platform) == platform \notin Platform

\* the row INSERT OR REPLACE INTO posts writes for a post (the columns the
\* claims read)
PostRow(post) ==
    [post_id |-> post.post_id, platform |-> post.platform,
     content |-> post.content, likes |-> post.likes,
     comments |-> post.comments, shares |-> post.shares,
     engagement_score |-> post.likes + post.comments + post.shares,
     post_date |-> post.post_date]

\* INSERT OR REPLACE of rows, one after the other, into posts, whose primary
\* key is post_id: a row with the key of a later one is deleted
InsertOrReplacePosts(table, rows) ==
    LET Kept(old) == \A k \in DOMAIN rows : rows[k].post_id # old.post_id
        Last(k) == \A j \in DOMAIN rows : j > k => rows[j].post_id # rows[k].post_id
        last == SelectSeq([k \in DOMAIN rows |-> k], Last)
    IN  SelectSeq(table, Kept) \o [k \in DOMAIN last |-> rows[last[k]]]

\* the same into daily_metrics, where (date, platform) is UNIQUE
InsertOrReplaceMetrics(table, rows) ==
    LET Same(a, b) == a.date = b.date /\ a.platform = b.platform
        Kept(old) == \A k \in DOMAIN rows : ~Same(rows[k], old)
        Last(k) == \A j \in DOMAIN rows : j > k => ~Same(rows[j], rows[k])
        last == SelectSeq([k \in DOMAIN rows |-> k], Last)
    IN  SelectSeq(table, Kept) \o [k \in DOMAIN last |-> rows[last[k]]]

\* _save_to_sqlite on the three tables: the tables after the call, and
\* whether it raised. The connection is committed at the end only, so a call
\* that raises leaves the tables as they were.
save_to_sqlite(tables, ps, summary) ==
    LET metrics == IF summary.given THEN summary.value.daily_metrics ELSE << >>
    IN  IF \E i \in DOMAIN ps : ~HasValueAttribute(ps[i].platform)
        THEN [raised |-> TRUE, tables |-> tables]
        ELSE IF \E k \in DOMAIN metrics : ~HasValueAttribute(metrics[k].platform)
        THEN [raised |-> TRUE, tables |-> tables]
        ELSE [raised |-> FALSE,
              tables |->
                  [posts |-> InsertOrReplacePosts(tables.posts,
                                 [i \in DOMAIN ps |-> PostRow(ps[i])]),
                   daily_metrics |-> InsertOrReplaceMetrics(tables.daily_metrics, metrics),
                   analytics_summaries |->
                       IF summary.given
                       THEN Append(tables.analytics_summaries,
                                   [date |-> summary.value.date,
                                    summary_data |-> summary.value])
                       ELSE tables.analytics_summaries]]

\* the three tables of the database
Tables ==
    [posts |-> posts_table, daily_metrics |-> daily_metrics_table,
     analytics_summaries |-> analytics_summaries]

\* the lists of posts handed to save_to_database: none, one post, two posts,
\* two posts with the same post_id on two platforms
SaveInputs ==
    {<< >>,
     <<Post(1, "twitter", Content(3), 5, 1, 0, 10)>>,
     <<Post(1, "twitter", Content(3), 5, 1, 0, 10),
       Post(2, "twitter", Content(3), 7, 0, 0, 40)>>,
     <<Post(1, "twitter", Content(3), 5, 1, 0, 10),
       Post(1, "facebook", Content(3), 9, 0, 0, 10)>>}

InitStorage ==
    /\ EngineIdle
    /\ RetryIdle
    /\ PipelineIdle
    /\ StorageEmpty

\* storage.save_to_database(posts, summary), with or without the summary of
\* the posts
SaveToDatabase ==
    /\ phase = "idle"
    /\ Len(saves) < MaxSaves
    /\ \E ps \in SaveInputs, today \in Today, given \in BOOLEAN :
          LET summary == IF given THEN Some(generate_analytics_summary(ps, today))
                         ELSE NoSummary
              saved == save_to_sqlite(Tables, ps, summary)
          IN  /\ posts_table' = saved.tables.posts
              /\ daily_metrics_table' = saved.tables.daily_metrics
              /\ analytics_summaries' = saved.tables.analytics_summaries
              /\ saves' = Append(saves,
                     [posts |-> ps, summary |-> summary, raised |-> saved.raised,
                      posts_rows |-> Len(saved.tables.posts),
                      daily_metrics_rows |-> Len(saved.tables.daily_metrics)])
    /\ UNCHANGED <<files, retry_vars, pipeline_vars>>
    /\ UNCHANGED <<raw_posts, posts, threshold, df, summaries, daily_metrics,
                   top_posts, top_per_platform, moving_averages,
                   platform_comparison, anomalies, pc>>

NextStorage == SaveToDatabase

SpecStorage == InitStorage /\ [][NextStorage]_vars

----------------------------------------------------------------------------
(* SocialMediaAnalyticsPipeline.collect_data and run_pipeline *)

\* the collectors _initialize_collectors may have created, in the order of
\* the dict: twitter, facebook, youtube, each only with its credentials
CollectorSets ==
    {<< >>, <<"twitter">>, <<"facebook">>, <<"youtube">>,
     <<"twitter", "facebook">>, <<"twitter", "youtube">>,
     <<"facebook", "youtube">>, <<"twitter", "facebook", "youtube">>}

\* queries and user_ids of a call: neither, some queries, or a twitter user
Modes ==
    {[queries |-> 0, user_ids |-> {}],
     [queries |-> MaxQueries, user_ids |-> {}],
     [queries |-> 0, user_ids |-> {"twitter"}]}

\* what a collector's get_trending_posts, collect_posts or get_user_posts
\* may return: no post, or a post of its platform
Batches(platform, id) == {<< >>, <<Post(id, platform, Content(3), 5, 0, 0, 10)>>}

\* a mutant: the posts a collector gathered before it raised are kept
AllPostsAfterRaiseKeepsGathered(all_posts_, platform_posts_) ==
    all_posts_ \o platform_posts_

\* all_posts after a collector raised: the except clause logs and continues,
\* all_posts.extend(platform_posts) is not reached
AllPostsAfterRaise(all_posts_, platform_posts_) == all_posts_

\* a mutant: the pipeline goes on without posts
StepAfterCollectionAlwaysAnalyzes(ps) == "analyze"

\* run_pipeline after collect_data: it returns at once if there is no post
StepAfterCollection(ps) == IF ps = << >> THEN "done" ELSE "analyze"

\* run_pipeline after the summary: the files if save_to_files, then the
\* database if save_to_db, then the insights
StepAfterSummary(args_) ==
    IF args_.save_to_files THEN "save_files"
    ELSE IF args_.save_to_db THEN "save_to_database"
    ELSE "insights"

StepAfterFiles(args_) ==
    IF args_.save_to_db THEN "save_to_database" ELSE "insights"

\* the four writers run_pipeline calls, in its order
FileWriters ==
    <<"save_posts_json", "save_posts_csv", "save_analytics_summary_json",
      "save_analytics_summary_csv">>

\* what run_pipeline returns
NoPostsCollected ==
    [returned |-> TRUE, success |-> FALSE, error |-> "No posts collected",
     posts_count |-> 0]

Failed(error) == [returned |-> TRUE, success |-> FALSE, error |-> error]

Succeeded(ps, anomalies_, saved_files, saved_to_database) ==
    [returned |-> TRUE, success |-> TRUE, posts_collected |-> Len(ps),
     anomalies_detected |-> Len(anomalies_), saved_files |-> saved_files,
     saved_to_database |-> saved_to_database]

\* a call of collect_data or of run_pipeline begins
PipelineCalled(entry, collector_sets) ==
    /\ EngineIdle
    /\ RetryIdle
    /\ StorageEmpty
    /\ collectors \in collector_sets
    /\ args \in {[entry |-> entry, queries |-> m.queries, user_ids |-> m.user_ids,
                  save_to_db |-> d, save_to_files |-> f] :
                 m \in Modes, d \in BOOLEAN, f \in BOOLEAN}
    /\ cur = 1
    /\ query = 0
    /\ platform_posts = << >>
    /\ all_posts = << >>
    /\ attempts = << >>
    /\ trace = << >>
    /\ results = NotReturned
    /\ phase = "authenticate"

InitCollectData ==
    /\ PipelineCalled("collect_data", CollectorSets)
    /\ args.save_to_db
    /\ args.save_to_files

InitPipeline ==
    PipelineCalled("run_pipeline", {<< >>, <<"twitter">>, <<"twitter", "facebook">>})

\* collect_data, the turn of the next collector up to its authenticate():
\* denied or raising, the turn ends; otherwise the collection starts, or,
\* with user_ids that do not name the platform, ends with no post
Authenticate ==
    /\ phase = "authenticate"
    /\ cur <= Len(collectors)
    /\ \E outcome \in {"authenticated", "denied", "raised"} :
          LET platform == collectors[cur]
          IN  IF outcome # "authenticated"
              THEN /\ attempts' = Append(attempts,
                          [platform |-> platform, outcome |-> outcome,
                           gathered |-> << >>])
                   /\ cur' = cur + 1
                   /\ UNCHANGED <<query, platform_posts, phase>>
              ELSE IF args.queries = 0 /\ args.user_ids # {}
                      /\ platform \notin args.user_ids
              THEN /\ attempts' = Append(attempts,
                          [platform |-> platform, outcome |-> "completed",
                           gathered |-> << >>])
                   /\ cur' = cur + 1
                   /\ platform_posts' = << >>
                   /\ UNCHANGED <<query, phase>>
              ELSE /\ platform_posts' = << >>
                   /\ query' = 0
                   /\ phase' = "collect"
                   /\ UNCHANGED <<attempts, cur>>
    /\ UNCHANGED <<collectors, args, all_posts, trace, results, retry_vars,
                   storage_vars>>
    /\ UNCHANGED <<raw_posts, posts, threshold, df, summaries, daily_metrics,
                   top_posts, top_per_platform, moving_averages,
                   platform_comparison, anomalies, pc>>

\* collect_data, one call of the collector: get_trending_posts, collect_posts
\* for the next query, or get_user_posts. If it raises the turn ends and
\* what the collector gathered is dropped; after the last call
\* all_posts is extended by what the collector gathered
CollectPosts ==
    /\ phase = "collect"
    /\ \E raised \in BOOLEAN :
       \E batch \in Batches(collectors[cur], 10 * cur + query + 1) :
          LET platform == collectors[cur]
              gathered == IF args.queries > 0 THEN platform_posts \o batch
                          ELSE batch
          IN  IF raised
              THEN /\ batch = << >>
                   /\ all_posts' = AllPostsAfterRaise(all_posts, platform_posts)
                   /\ attempts' = Append(attempts,
                          [platform |-> platform, outcome |-> "raised",
                           gathered |-> platform_posts])
                   /\ cur' = cur + 1
                   /\ phase' = "authenticate"
                   /\ UNCHANGED <<query, platform_posts>>
              ELSE IF query + 1 < args.queries
              THEN /\ platform_posts' = gathered
                   /\ query' = query + 1
                   /\ UNCHANGED <<all_posts, attempts, cur, phase>>
              ELSE /\ platform_posts' = gathered
                   /\ all_posts' = all_posts \o gathered
                   /\ attempts' = Append(attempts,
                          [platform |-> platform, outcome |-> "completed",
                           gathered |-> gathered])
                   /\ cur' = cur + 1
                   /\ phase' = "authenticate"
                   /\ UNCHANGED query
    /\ UNCHANGED <<collectors, args, trace, results, retry_vars, storage_vars>>
    /\ UNCHANGED <<raw_posts, posts, threshold, df, summaries, daily_metrics,
                   top_posts, top_per_platform, moving_averages,
                   platform_comparison, anomalies, pc>>

\* collect_data returns all_posts; run_pipeline, if it is the caller, returns
\* 'No posts collected' when there is none
ReturnPosts ==
    /\ phase = "authenticate"
    /\ cur > Len(collectors)
    /\ posts' = all_posts
    /\ IF args.entry = "collect_data"
       THEN /\ phase' = "done"
            /\ UNCHANGED results
       ELSE /\ phase' = StepAfterCollection(all_posts)
            /\ results' = IF StepAfterCollection(all_posts) = "done"
                          THEN NoPostsCollected ELSE NotReturned
    /\ UNCHANGED <<collectors, args, cur, query, platform_posts, all_posts,
                   attempts, trace, retry_vars, storage_vars>>
    /\ UNCHANGED <<raw_posts, threshold, df, summaries, daily_metrics,
                   top_posts, top_per_platform, moving_averages,
                   platform_comparison, anomalies, pc>>

\* run_pipeline, step 2: processor.generate_analytics_summary(posts)
Analyze ==
    /\ phase = "analyze"
    /\ \E today \in Today :
          summaries' = Append(summaries, generate_analytics_summary(posts, today))
    /\ trace' = Append(trace, "generate_analytics_summary")
    /\ phase' = StepAfterSummary(args)
    /\ UNCHANGED <<collectors, args, cur, query, platform_posts, all_posts,
                   attempts, results, retry_vars, storage_vars>>
    /\ UNCHANGED <<raw_posts, posts, threshold, df, daily_metrics, top_posts,
                   top_per_platform, moving_averages, platform_comparison,
                   anomalies, pc>>

\* run_pipeline, step 3, one of the four writers: it writes its file, or
\* raises (the writers re-raise what open or json.dump raise) and
\* run_pipeline returns the failure
SaveToFiles ==
    /\ phase = "save_files"
    /\ \E written \in BOOLEAN :
          LET writer == FileWriters[Len(files) + 1]
          IN  /\ trace' = Append(trace, writer)
              /\ IF written
                 THEN /\ files' = Append(files, writer)
                      /\ phase' = IF Len(files) + 1 = Len(FileWriters)
                                  THEN StepAfterFiles(args) ELSE "save_files"
                      /\ UNCHANGED results
                 ELSE /\ results' = Failed("OSError")
                      /\ phase' = "done"
                      /\ UNCHANGED files
    /\ UNCHANGED <<collectors, args, cur, query, platform_posts, all_posts,
                   attempts, retry_vars, posts_table, daily_metrics_table,
                   analytics_summaries, saves>>
    /\ UNCHANGED <<raw_posts, posts, threshold, df, summaries, daily_metrics,
                   top_posts, top_per_platform, moving_averages,
                   platform_comparison, anomalies, pc>>

\* run_pipeline, step 3: storage.save_to_database(posts, analytics_summary);
\* what it raises ends run_pipeline with the failure
RunSaveToDatabase ==
    /\ phase = "save_to_database"
    /\ LET summary == Some(summaries[Len(summaries)])
           saved == save_to_sqlite(Tables, posts, summary)
       IN  /\ posts_table' = saved.tables.posts
           /\ daily_metrics_table' = saved.tables.daily_metrics
           /\ analytics_summaries' = saved.tables.analytics_summaries
           /\ saves' = Append(saves,
                  [posts |-> posts, summary |-> summary, raised |-> saved.raised,
                   posts_rows |-> Len(saved.tables.posts),
                   daily_metrics_rows |-> Len(saved.tables.daily_metrics)])
           /\ IF saved.raised
              THEN /\ results' = Failed("AttributeError")
                   /\ phase' = "done"
              ELSE /\ phase' = "insights"
                   /\ UNCHANGED results
    /\ trace' = Append(trace, "save_to_database")
    /\ UNCHANGED <<collectors, args, cur, query, platform_posts, all_posts,
                   attempts, files, retry_vars>>
    /\ UNCHANGED <<raw_posts, posts, threshold, df, summaries, daily_metrics,
                   top_posts, top_per_platform, moving_averages,
                   platform_comparison, anomalies, pc>>

\* run_pipeline, step 4, and its result
Insights ==
    /\ phase = "insights"
    /\ df' = process_posts(posts)
    /\ platform_comparison' = get_platform_comparison(df')
    /\ anomalies' = detect_anomalies(df', DefaultThreshold)
    /\ trace' = trace \o <<"process_posts", "get_platform_comparison", "detect_anomalies">>
    /\ results' = Succeeded(posts, anomalies', files, args.save_to_db)
    /\ phase' = "done"
    /\ UNCHANGED <<collectors, args, cur, query, platform_posts, all_posts,
                   attempts, retry_vars, storage_vars>>
    /\ UNCHANGED <<raw_posts, posts, threshold, summaries, daily_metrics,
                   top_posts, top_per_platform, moving_averages, pc>>

NextCollectData == Authenticate \/ CollectPosts \/ ReturnPosts

NextPipeline ==
    \/ Authenticate
    \/ CollectPosts
    \/ ReturnPosts
    \/ Analyze
    \/ SaveToFiles
    \/ RunSaveToDatabase
    \/ Insights

SpecCollectData == InitCollectData /\ [][NextCollectData]_vars

SpecPipeline == InitPipeline /\ [][NextPipeline]_vars

----------------------------------------------------------------------------
(* Which results the caller holds *)

Stages ==
    <<"start", "processed", "daily", "top", "per_platform", "moving",
      "comparison", "anomalies">>

\* the driver is at or past a stage
Reached(stage) ==
    \E a, b \in DOMAIN Stages : Stages[a] = stage /\ Stages[b] = pc /\ a <= b

ProcessedDone == Reached("processed")

DailyDone == Reached("daily")

TopDone == Reached("top")

PerPlatformDone == Reached("per_platform")

MovingDone == Reached("moving")

ComparisonDone == Reached("comparison")

AnomaliesDone == Reached("anomalies")

\* the engagement score of an input post
ScoreOf(post) == post.likes + post.comments + post.shares

\* the position in the input of the post with a given post_id
PosOf(post_id) == CHOOSE i \in DOMAIN posts : posts[i].post_id = post_id

\* the input posts of one (date, platform) pair, in input order
PostsOfPair(date, platform) ==
    LET Keep(post) == DateOf(post.post_date) = date /\ post.platform = platform
    IN  SelectSeq(posts, Keep)

\* the sum of the engagement scores of a sequence of posts
SumScores(ps) == SumCol(ps, "likes") + SumCol(ps, "comments") + SumCol(ps, "shares")

----------------------------------------------------------------------------
(* Aggregator *)

C2_OneMetricPerPair ==
    DailyDone =>
        /\ \A i \in DOMAIN posts :
              Cardinality({k \in DOMAIN daily_metrics :
                  /\ daily_metrics[k].date = DateOf(posts[i].post_date)
                  /\ daily_metrics[k].platform = posts[i].platform}) = 1
        /\ \A k \in DOMAIN daily_metrics :
              PostsOfPair(daily_metrics[k].date, daily_metrics[k].platform) # << >>

\* twitter has posts on both days, facebook on the first day only: three
\* rows, none for facebook on the second day
C2_Witness ==
    /\ DailyDone
    /\ Len(daily_metrics) = 3
    /\ PostsOfPair(0, "twitter") # << >>
    /\ PostsOfPair(1, "twitter") # << >>
    /\ PostsOfPair(0, "facebook") # << >>
    /\ PostsOfPair(1, "facebook") = << >>

\* C3: for every (date, platform) group the totals are the sums of the
\* group's likes, comments, shares and engagement scores, and
\* avg_engagement_per_post is total_engagement / total_posts rounded to 2
\* decimals (at most half a hundredth away); three same-day twitter posts
\* scoring 5, 50, 500 give total_engagement 555 and average 185.0
C3_GroupTotalsAndAverage ==
    DailyDone =>
        /\ \A k \in DOMAIN daily_metrics :
              LET m == daily_metrics[k]
                  group == PostsOfPair(m.date, m.platform)
                  n == Len(group)
                  diff == m.avg_engagement_per_post * n - 100 * m.total_engagement
              IN  /\ n > 0
                  /\ m.total_posts = n
                  /\ m.total_likes = SumCol(group, "likes")
                  /\ m.total_comments = SumCol(group, "comments")
                  /\ m.total_shares = SumCol(group, "shares")
                  /\ m.total_engagement = SumScores(group)
                  /\ 2 * diff <= n
                  /\ 2 * diff >= 0 - n
        /\ ( /\ Len(posts) = 3
             /\ \A i \in DOMAIN posts :
                    posts[i].platform = "twitter" /\ DateOf(posts[i].post_date) = 0
             /\ [i \in DOMAIN posts |-> ScoreOf(posts[i])] = <<5, 50, 500>> )
           => /\ Len(daily_metrics) = 1
              /\ daily_metrics[1].total_engagement = 555
              /\ daily_metrics[1].avg_engagement_per_post = 18500

\* a group of three posts scoring 1, 50 and 500, whose likes, comments and
\* shares differ and whose average, 183.66..., is reported as 183.67
C3_Witness ==
    /\ DailyDone
    /\ \E k \in DOMAIN daily_metrics :
          /\ daily_metrics[k].total_posts = 3
          /\ daily_metrics[k].total_engagement = 551
          /\ daily_metrics[k].total_likes = 538
          /\ daily_metrics[k].total_comments = 9
          /\ daily_metrics[k].total_shares = 4
          /\ daily_metrics[k].avg_engagement_per_post = 18367

----------------------------------------------------------------------------
(* Ranker *)

Min(a, b) == IF a < b THEN a ELSE b

\* the post_ids a ranking lists
IdsOf(ranking) == {ranking[k].post_id : k \in DOMAIN ranking}

\* a ranking lists distinct posts of the input, with their own scores
ListsInputPosts(ranking) ==
    /\ Cardinality(IdsOf(ranking)) = Len(ranking)
    /\ \A k \in DOMAIN ranking :
          \E i \in DOMAIN posts :
              /\ posts[i].post_id = ranking[k].post_id
              /\ posts[i].platform = ranking[k].platform
              /\ ScoreOf(posts[i]) = ranking[k].engagement_score

\* a ranking is in descending order of engagement_score
Descending(ranking) ==
    \A a, b \in DOMAIN ranking :
        a < b => ranking[a].engagement_score >= ranking[b].engagement_score

\* no post of `among` that the ranking leaves out scores strictly more than
\* a post it lists
NoBetterLeftOut(ranking, among) ==
    \A i \in among :
        posts[i].post_id \notin IdsOf(ranking) =>
            \A k \in DOMAIN ranking :
                ScoreOf(posts[i]) <= ranking[k].engagement_score

\* equal scores keep the input order: in the list, and at the cut-off
TiesInInputOrder(ranking, among) ==
    /\ \A a, b \in DOMAIN ranking :
          (a < b /\ ranking[a].engagement_score = ranking[b].engagement_score)
              => PosOf(ranking[a].post_id) < PosOf(ranking[b].post_id)
    /\ \A i \in among :
          posts[i].post_id \notin IdsOf(ranking) =>
              \A k \in DOMAIN ranking :
                  ScoreOf(posts[i]) = ranking[k].engagement_score
                      => PosOf(ranking[k].post_id) < i

\* the positions of the input posts of one platform
PostsOn(platform) == {i \in DOMAIN posts : posts[i].platform = platform}

\* C4: top_posts_overall (get_top_posts with top_n = 5) has exactly
\* min(5, number of input posts) entries, in descending order of
\* engagement_score, and no post left out has a strictly larger score than a
\* post returned
C4_TopPostsOverall ==
    TopDone =>
        /\ Len(top_posts) = Min(5, Len(posts))
        /\ ListsInputPosts(top_posts)
        /\ Descending(top_posts)
        /\ NoBetterLeftOut(top_posts, DOMAIN posts)

\* more than five posts, both scores listed, and a post left out
C4_Witness ==
    /\ TopDone
    /\ Len(posts) > 5
    /\ Len(top_posts) = 5
    /\ top_posts[1].engagement_score > top_posts[5].engagement_score
    /\ \E i \in DOMAIN posts : posts[i].post_id \notin IdsOf(top_posts)

C6_KeysArePresentPlatforms ==
    PerPlatformDone =>
        /\ DOMAIN top_per_platform = {posts[i].platform : i \in DOMAIN posts}
        /\ \A p \in DOMAIN top_per_platform : top_per_platform[p] # << >>

\* several posts, all of one platform: the map has that one key
C6_Witness ==
    /\ PerPlatformDone
    /\ Len(posts) >= 2
    /\ DOMAIN top_per_platform = {"facebook"}

\* C7: for every platform p present in the input, top_posts_per_platform[p]
\* has exactly min(3, number of p's posts) entries, all of platform p, in
\* descending order of engagement_score, and no omitted post of p has a
\* strictly larger score than a listed one
C7_TopPostsPerPlatform ==
    PerPlatformDone =>
        \A p \in {posts[i].platform : i \in DOMAIN posts} :
            /\ p \in DOMAIN top_per_platform
            /\ Len(top_per_platform[p]) = Min(3, Cardinality(PostsOn(p)))
            /\ ListsInputPosts(top_per_platform[p])
            /\ \A k \in DOMAIN top_per_platform[p] :
                  top_per_platform[p][k].platform = p
            /\ Descending(top_per_platform[p])
            /\ NoBetterLeftOut(top_per_platform[p], PostsOn(p))

\* two platforms, one with more than three posts of both scores, the other
\* with fewer than three
C7_Witness ==
    /\ PerPlatformDone
    /\ Cardinality(PostsOn("twitter")) > 3
    /\ Cardinality(PostsOn("facebook")) \in {1, 2}
    /\ Len(top_per_platform["twitter"]) = 3
    /\ Len(top_per_platform["facebook"]) = Cardinality(PostsOn("facebook"))
    /\ top_per_platform["twitter"][1].engagement_score
          > top_per_platform["twitter"][3].engagement_score

----------------------------------------------------------------------------
(* Trend estimator *)

\* the dates on which a platform has a post
DaysOf(platform) == {DateOf(posts[i].post_date) : i \in PostsOn(platform)}

\* the sum of a platform's engagement scores on one date
DaySum(platform, date) == SumScores(PostsOfPair(date, platform))

\* the sum of all the engagement scores of a platform
PlatformSum(platform) ==
    LET Keep(post) == post.platform = platform
    IN  SumScores(SelectSeq(posts, Keep))

\* the MovingAverage records reported for a platform
RecordsOf(platform) ==
    {k \in DOMAIN moving_averages : moving_averages[k].platform = platform}

\* C8: if a platform has fewer distinct days than a window size (7 or 30),
\* compute_moving_averages still reports a MovingAverage for that platform,
\* and its value for that window is the simple mean of the platform's daily
\* engagement sums over all of its days (rounded to 2 decimals on output)
C8_ShortHistoryFallsBackToMean ==
    MovingDone =>
        \A p \in {posts[i].platform : i \in DOMAIN posts} :
            LET days == Cardinality(DaysOf(p))
                mean == Round2(PlatformSum(p), days)
            IN  /\ days < 7 =>
                      \E k \in RecordsOf(p) : moving_averages[k].moving_avg_7d = mean
                /\ days < 30 =>
                      \E k \in RecordsOf(p) : moving_averages[k].moving_avg_30d = mean

\* C9: for a platform whose posts all fall on a single calendar date with
\* total engagement E, compute_moving_averages reports moving_avg_7d = E and
\* moving_avg_30d = E for that platform
C9_SingleDayReportsItsTotal ==
    MovingDone =>
        \A p \in {posts[i].platform : i \in DOMAIN posts} :
            Cardinality(DaysOf(p)) = 1 =>
                \E k \in RecordsOf(p) :
                    /\ moving_averages[k].moving_avg_7d = 100 * PlatformSum(p)
                    /\ moving_averages[k].moving_avg_30d = 100 * PlatformSum(p)

\* C10: for a platform with at least 30 distinct days whose daily engagement
\* sum is the same constant c on every day, compute_moving_averages reports
\* moving_avg_7d = moving_avg_30d = c
C10_ConstantSeriesReportsConstant ==
    MovingDone =>
        \A p \in {posts[i].platform : i \in DOMAIN posts} :
            \A c \in {DaySum(p, d) : d \in DaysOf(p)} :
                ( /\ Cardinality(DaysOf(p)) >= 30
                  /\ \A d \in DaysOf(p) : DaySum(p, d) = c )
                => \E k \in RecordsOf(p) :
                      /\ moving_averages[k].moving_avg_7d = 100 * c
                      /\ moving_averages[k].moving_avg_30d = 100 * c

\* C11: compute_moving_averages returns exactly one MovingAverage per
\* platform present in the table, and that record's date is the latest
\* calendar date on which the platform has a post
C11_OneRecordPerPlatformAtLatestDate ==
    MovingDone =>
        /\ Len(moving_averages)
              = Cardinality({posts[i].platform : i \in DOMAIN posts})
        /\ \A p \in {posts[i].platform : i \in DOMAIN posts} :
              /\ Cardinality(RecordsOf(p)) = 1
              /\ \A k \in RecordsOf(p) :
                    moving_averages[k].date = SetMax(DaysOf(p))

----------------------------------------------------------------------------
(* Anomaly detector *)

\* the engagement scores of the input posts, in input order
ScoresOfPosts == [i \in DOMAIN posts |-> ScoreOf(posts[i])]

\* C12, as the engine has it: for a table whose engagement scores are
\* [1, 1, 1, 1, 100] the z-score of 100 is exactly 2.0, so detect_anomalies
\* with threshold 2.0 returns no anomaly, and with a threshold of 0.5, 1.0
\* or 1.9 it returns exactly one anomaly, the post with score 100
C12_ZScoreOfTwoIsNotAboveTwo ==
    (AnomaliesDone /\ ScoresOfPosts = <<1, 1, 1, 1, 100>>) =>
        /\ threshold = 20 => anomalies = << >>
        /\ threshold \in {5, 10, 19} =>
              /\ Len(anomalies) = 1
              /\ anomalies[1].post_id = posts[5].post_id
              /\ anomalies[1].engagement_score = 100

\* the scores [1, 1, 1, 1, 100] went through detect_anomalies at 2.0
C12_Witness ==
    /\ AnomaliesDone
    /\ ScoresOfPosts = <<1, 1, 1, 1, 100>>
    /\ threshold = 20
    /\ anomalies = << >>

\* C12 as stated: for a table whose engagement scores are [1, 1, 1, 1, 100],
\* detect_anomalies with threshold 2.0 returns exactly one anomaly, the post
\* with score 100
C12_AsStated ==
    (AnomaliesDone /\ ScoresOfPosts = <<1, 1, 1, 1, 100>> /\ threshold = 20) =>
        /\ Len(anomalies) = 1
        /\ anomalies[1].engagement_score = 100

\* C13: if all engagement scores in the table are identical (standard
\* deviation 0), detect_anomalies returns, and returns no anomalies, for
\* every threshold >= 0
C13_IdenticalScoresHaveNoAnomalies ==
    ( /\ AnomaliesDone
      /\ \A i, j \in DOMAIN posts : ScoreOf(posts[i]) = ScoreOf(posts[j])
      /\ threshold >= 0 )
    => anomalies = << >>

\* three or more posts all scoring 100, at threshold 0
C13_Witness ==
    /\ AnomaliesDone
    /\ Len(posts) >= 3
    /\ \A i \in DOMAIN posts : ScoreOf(posts[i]) = 100
    /\ threshold = 0
    /\ anomalies = << >>

----------------------------------------------------------------------------
(* Comparator *)

\* C14: for every platform in the result of get_platform_comparison,
\* engagement_distribution.low + medium + high equals that platform's
\* total_posts
C14_BucketsSumToTotalPosts ==
    ComparisonDone =>
        \A p \in DOMAIN platform_comparison :
            LET stats == platform_comparison[p]
            IN  /\ stats.engagement_distribution.low
                      + stats.engagement_distribution.medium
                      + stats.engagement_distribution.high = stats.total_posts
                /\ stats.total_posts = Cardinality(PostsOn(p))

\* a platform with one post in each bucket, two of them on the limits 10
\* and 100
C14_Witness ==
    /\ ComparisonDone
    /\ "twitter" \in DOMAIN platform_comparison
    /\ platform_comparison["twitter"].engagement_distribution
          = [low |-> 1, medium |-> 1, high |-> 1]
    /\ \E i, j \in PostsOn("twitter") :
          ScoreOf(posts[i]) = 10 /\ ScoreOf(posts[j]) = 100

----------------------------------------------------------------------------
(* Engagement score and content of what the engine emits *)

\* every TopPost of both rankings
AllTopPosts ==
    Range(top_posts)
        \cup UNION {Range(top_per_platform[p]) : p \in DOMAIN top_per_platform}

\* C17: for every post and every row of the projected table, engagement_score
\* equals likes + comments + shares of that same post / row, and every
\* TopPost emitted by the ranker satisfies the same equation
C17_EngagementScoreIsSumOfParts ==
    /\ ProcessedDone =>
          /\ Len(df) = Len(posts)
          /\ \A i \in DOMAIN df :
                /\ df[i].engagement_score
                      = df[i].likes + df[i].comments + df[i].shares
                /\ df[i].engagement_score
                      = posts[i].likes + posts[i].comments + posts[i].shares
    /\ PerPlatformDone =>
          \A t \in AllTopPosts :
              t.engagement_score = t.likes + t.comments + t.shares

\* a post with likes, comments and shares is in the table and in both
\* rankings
C17_Witness ==
    /\ PerPlatformDone
    /\ \E i \in DOMAIN df :
          /\ df[i].likes > 0 /\ df[i].comments > 0 /\ df[i].shares > 0
          /\ \E k \in DOMAIN top_posts : top_posts[k].post_id = df[i].post_id
          /\ \E k \in DOMAIN top_per_platform[df[i].platform] :
                top_per_platform[df[i].platform][k].post_id = df[i].post_id

\* C18: in every TopPost returned by get_top_posts and
\* get_top_posts_per_platform, content is the post's content unchanged when
\* it has at most 200 characters, and otherwise its first 200 characters
\* followed by "..."; content of exactly 200 characters is not truncated
C18_ContentTruncatedAbove200 ==
    PerPlatformDone =>
        \A t \in AllTopPosts :
            LET content == posts[PosOf(t.post_id)].content
            IN  /\ Len(content) <= 200 => t.content = content
                /\ Len(content) > 200 =>
                      /\ Len(t.content) = 203
                      /\ \A c \in 1..200 : t.content[c] = content[c]
                      /\ \A c \in 201..203 : t.content[c] = "."

\* a post of exactly 200 characters listed with all of them, and one of 201
\* characters listed with 200 and the marker
C18_Witness ==
    /\ PerPlatformDone
    /\ \E t \in AllTopPosts :
          /\ Len(posts[PosOf(t.post_id)].content) = 200
          /\ Len(t.content) = 200
    /\ \E t \in AllTopPosts :
          /\ Len(posts[PosOf(t.post_id)].content) = 201
          /\ Len(t.content) = 203
          /\ t.content[200] = posts[PosOf(t.post_id)].content[200]
          /\ t.content[201] = "."

----------------------------------------------------------------------------
(* Summary assembler and degenerate inputs *)

\* the four collections of a summary
CollectionsOf(summary) ==
    <<summary.daily_metrics, summary.top_posts_overall,
      summary.top_posts_per_platform, summary.moving_averages>>

\* C15: for empty input every engine operation returns an empty result and
\* does not fail: process_posts an empty table, compute_daily_metrics,
\* get_top_posts, compute_moving_averages and detect_anomalies empty lists,
\* get_top_posts_per_platform and get_platform_comparison empty maps, and
\* generate_analytics_summary a summary, stamped with the current date,
\* whose four collections are empty
C15_EmptyInputGivesEmptyResults ==
    posts = << >> =>
        /\ ProcessedDone => df = << >>
        /\ DailyDone => daily_metrics = << >>
        /\ TopDone => top_posts = << >>
        /\ PerPlatformDone => top_per_platform = << >>
        /\ MovingDone => moving_averages = << >>
        /\ ComparisonDone => platform_comparison = << >>
        /\ AnomaliesDone => anomalies = << >>
        /\ \A k \in DOMAIN summaries :
              /\ summaries[k].date \in Today
              /\ CollectionsOf(summaries[k]) = <<<< >>, << >>, << >>, << >>>>

\* every operation was applied to the empty input, the summary twice
C15_Witness ==
    /\ posts = << >>
    /\ AnomaliesDone
    /\ Len(summaries) = 2

----------------------------------------------------------------------------
(* Failures *)

\* C19: an unexpected internal failure inside an engine component (such as
\* a table lacking a required column) surfaces as an error to the caller: a
\* call that returns on a non-empty table does not return the empty list or
\* map in place of the failure, and detect_anomalies does not return at all
\* on a table without engagement scores
C19_FailuresAreNotSilentEmpties ==
    df # << >> =>
        /\ DailyDone => daily_metrics # << >>
        /\ TopDone => top_posts # << >>
        /\ PerPlatformDone => top_per_platform # << >>
        /\ MovingDone => moving_averages # << >>
        /\ ComparisonDone => platform_comparison # << >>
        /\ AnomaliesDone => ~KeyError(df, {"engagement_score"})

\* a raw record spells a date in one of the known formats
Usable(raw_post) == CreatedAt(raw_post).format \in DateFormats

\* C20: a record with no usable (unparseable or missing) post_date never
\* reaches the analytics with a substituted default date: no row of the
\* table comes from such a record
C20_NoSubstitutedDate ==
    ProcessedDone =>
        \A i \in DOMAIN raw_posts :
            ~Usable(raw_posts[i]) =>
                \A k \in DOMAIN df : df[k].post_id # raw_posts[i].id

----------------------------------------------------------------------------
(* Inputs of the engine, and the rest of its operations *)

PostsScaledVariance ==
    LET squares == [i \in DOMAIN posts |-> [sq |-> ScoreOf(posts[i]) * ScoreOf(posts[i])]]
    IN  Len(posts) * SumCol(squares, "sq") - SumScores(posts) * SumScores(posts)

\* |score - mean| / std of post i is strictly above the threshold (in
\* tenths), mean and std taken over all the input posts
PostIsAnomalous(i) ==
    LET dev == Len(posts) * ScoreOf(posts[i]) - SumScores(posts)
    IN  /\ PostsScaledVariance > 0
        /\ 100 * dev * dev > threshold * threshold * PostsScaledVariance

\* C22: detect_anomalies flags a row exactly when the standard deviation is
\* positive and |score - mean| / std is strictly greater than the threshold,
\* mean and population standard deviation being taken over the whole table,
\* all platforms together; the flagged rows are reported in table order
C22_FlaggedIffZScoreAboveThreshold ==
    AnomaliesDone =>
        LET flagged == SelectSeq([i \in DOMAIN posts |-> i], PostIsAnomalous)
        IN  /\ Len(anomalies) = Len(flagged)
            /\ \A k \in DOMAIN flagged :
                  /\ anomalies[k].post_id = posts[flagged[k]].post_id
                  /\ anomalies[k].platform = posts[flagged[k]].platform
                  /\ anomalies[k].engagement_score = ScoreOf(posts[flagged[k]])

\* the only facebook post, scoring 100, is flagged against the twitter posts
\* scoring 1, whose z-score of 0.5 equals the threshold and is not flagged
C22_Witness ==
    /\ AnomaliesDone
    /\ ScoresOfPosts = <<1, 1, 1, 1, 100>>
    /\ threshold = 5
    /\ posts[5].platform = "facebook"
    /\ Len(anomalies) = 1
    /\ anomalies[1].platform = "facebook"

\* the posts of a platform on its `window` most recent dates
LatestPosts(platform, window) ==
    LET Recent(d) == Cardinality({e \in DaysOf(platform) : e > d}) < window
        Keep(post) == post.platform = platform /\ Recent(DateOf(post.post_date))
    IN  SelectSeq(posts, Keep)

\* C23: when a platform has at least `window` distinct days (window 7 or
\* 30), a moving average is reported for it whose value for that window is
\* the mean of the daily sums of the platform's `window` most recent dates
C23_WindowMeanOfLatestDays ==
    MovingDone =>
        \A p \in {posts[i].platform : i \in DOMAIN posts} :
            /\ Cardinality(DaysOf(p)) >= 7 =>
                  \E k \in RecordsOf(p) :
                      moving_averages[k].moving_avg_7d
                          = Round2(SumScores(LatestPosts(p, 7)), 7)
            /\ Cardinality(DaysOf(p)) >= 30 =>
                  \E k \in RecordsOf(p) :
                      moving_averages[k].moving_avg_30d
                          = Round2(SumScores(LatestPosts(p, 30)), 30)

\* the positions of a platform's posts whose score lies in lo..hi
PostsScoring(platform, lo, hi) ==
    {i \in PostsOn(platform) : ScoreOf(posts[i]) >= lo /\ ScoreOf(posts[i]) <= hi}

\* C24: in the platform comparison a post counts as low exactly when its
\* score is below 10, medium when 10 <= score < 100 and high when
\* score >= 100; total_engagement is the sum of the platform's scores and
\* top_engagement_post the largest of them
C24_ComparisonBuckets ==
    ComparisonDone =>
        \A p \in DOMAIN platform_comparison :
            LET stats == platform_comparison[p]
                top == CHOOSE i \in PostsOn(p) :
                           \A j \in PostsOn(p) : ScoreOf(posts[j]) <= ScoreOf(posts[i])
            IN  /\ stats.engagement_distribution.low
                      = Cardinality({i \in PostsOn(p) : ScoreOf(posts[i]) < 10})
                /\ stats.engagement_distribution.medium
                      = Cardinality(PostsScoring(p, 10, 99))
                /\ stats.engagement_distribution.high
                      = Cardinality({i \in PostsOn(p) : ScoreOf(posts[i]) >= 100})
                /\ stats.total_engagement = PlatformSum(p)
                /\ stats.top_engagement_post = ScoreOf(posts[top])

\* a platform whose posts score 10, 99 and 100: two medium and one high
C24_Witness ==
    /\ ComparisonDone
    /\ "twitter" \in DOMAIN platform_comparison
    /\ {ScoreOf(posts[i]) : i \in PostsOn("twitter")} = {10, 99, 100}
    /\ platform_comparison["twitter"].engagement_distribution
          = [low |-> 0, medium |-> 2, high |-> 1]
    /\ platform_comparison["twitter"].total_engagement = 209
    /\ platform_comparison["twitter"].top_engagement_post = 100

MetricsOf(platform) ==
    LET Keep(m) == m.platform = platform
    IN  SelectSeq(daily_metrics, Keep)

\* C26: the daily metrics and the platform comparison of one table cover the
\* same platforms, and for each of them the total_posts (total_engagement)
\* of its DailyMetrics over all dates sum to the total_posts
\* (total_engagement) of the comparison
C26_DailyMetricsAgreeWithComparison ==
    ComparisonDone =>
        /\ {daily_metrics[k].platform : k \in DOMAIN daily_metrics}
              = DOMAIN platform_comparison
        /\ \A p \in DOMAIN platform_comparison :
              /\ SumCol(MetricsOf(p), "total_posts")
                    = platform_comparison[p].total_posts
              /\ SumCol(MetricsOf(p), "total_engagement")
                    = platform_comparison[p].total_engagement

\* twitter has posts on several dates, two of them on the same date, and
\* its shares are not all zero
C26_Witness ==
    /\ ComparisonDone
    /\ Len(MetricsOf("twitter")) >= 2
    /\ platform_comparison["twitter"].total_posts = Len(MetricsOf("twitter")) + 1
    /\ platform_comparison["twitter"].total_engagement
          > SumCol(posts, "likes")

----------------------------------------------------------------------------
(* Retries *)

\* the calls of func made so far that raised
FailedCalls == {k \in DOMAIN calls : calls[k].raised}

\* C29: _retry_request with max_retries >= 1 calls func at most max_retries
\* times; it returns the value of the first call that succeeds and makes no
\* further call, and re-raises the exception of the last call when all
\* max_retries calls fail; it sleeps (2 ** attempt) * RETRY_DELAY after a
\* failed attempt that is followed by another one, and never after the last
C29_RetryRequest ==
    max_retries >= 1 =>
        LET n == Len(calls)
            delay == IF DOMAIN config = {} THEN 5 ELSE config.RETRY_DELAY
            raised == IF retry_result.returned THEN retry_result.raised ELSE FALSE
        IN  /\ n <= max_retries
            /\ \A k \in 1..(n - 1) : calls[k].raised
            /\ ~retry_result.returned => n < max_retries /\ FailedCalls = DOMAIN calls
            /\ retry_result.returned =>
                  /\ n >= 1
                  /\ retry_result.raised = calls[n].raised
                  /\ retry_result.value = calls[n].value
                  /\ retry_result.raised => n = max_retries
            /\ Len(waits) = Cardinality(FailedCalls) - (IF raised THEN 1 ELSE 0)
            /\ \A k \in DOMAIN waits : waits[k] = <<1, 2, 4, 8, 16>>[k] * delay

\* with the defaults (three attempts, RETRY_DELAY 5) all three calls failed:
\* the method slept 5 and 10 seconds, not after the third failure, and
\* re-raised the third exception
C29_Witness ==
    /\ max_retries = 3
    /\ DOMAIN config = {}
    /\ retry_result.returned
    /\ retry_result.raised
    /\ [k \in DOMAIN calls |-> calls[k].value] = <<"Timeout", "Timeout", "RateLimit">>
    /\ retry_result.value = "RateLimit"
    /\ waits = <<5, 10>>

----------------------------------------------------------------------------
(* Database *)

\* C30: after any sequence of save_to_database calls the posts table has at
\* most one row per post_id and daily_metrics at most one row per
\* (date, platform); saving the same posts and summary again changes neither
\* table's row count; analytics_summaries has one row per save that was
\* given a summary
C30_KeyedTablesAndSummaryPerSave ==
    /\ \A i, j \in DOMAIN posts_table :
          posts_table[i].post_id = posts_table[j].post_id => i = j
    /\ \A i, j \in DOMAIN daily_metrics_table :
          ( /\ daily_metrics_table[i].date = daily_metrics_table[j].date
            /\ daily_metrics_table[i].platform = daily_metrics_table[j].platform )
          => i = j
    /\ \A k \in DOMAIN saves :
          ( /\ k > 1
            /\ saves[k].posts = saves[k - 1].posts
            /\ saves[k].summary = saves[k - 1].summary )
          => /\ saves[k].posts_rows = saves[k - 1].posts_rows
             /\ saves[k].daily_metrics_rows = saves[k - 1].daily_metrics_rows
    /\ Len(analytics_summaries)
          = Cardinality({k \in DOMAIN saves : saves[k].summary.given})

----------------------------------------------------------------------------
(* Pipeline *)

\* the storage methods and, among them, the file writers
StorageCalls ==
    {"save_posts_json", "save_posts_csv", "save_analytics_summary_json",
     "save_analytics_summary_csv", "save_to_database"}

FileCalls == StorageCalls \ {"save_to_database"}

\* C27: run_pipeline with no collected posts returns {success: False, error:
\* 'No posts collected', posts_count: 0} without calling the processor or the
\* storage; in every run no storage method is called before
\* generate_analytics_summary has returned, and the file writers are called
\* before save_to_database
C27_PipelineOrder ==
    args.entry = "run_pipeline" =>
        /\ (phase = "done" /\ posts = << >>) =>
              /\ results = NoPostsCollected
              /\ trace = << >>
              /\ files = << >>
              /\ saves = << >>
        /\ \A i \in DOMAIN trace :
              trace[i] \in StorageCalls =>
                  /\ summaries # << >>
                  /\ \E j \in 1..(i - 1) : trace[j] = "generate_analytics_summary"
        /\ \A i, j \in DOMAIN trace :
              (trace[i] = "save_to_database" /\ trace[j] \in FileCalls) => j < i
        /\ (args.save_to_files /\ "save_to_database" \in {trace[i] : i \in DOMAIN trace})
              => Len(files) = 4

\* a run with posts, save_to_files and save_to_db: the summary, then the
\* four files, then save_to_database
C27_Witness ==
    /\ args.entry = "run_pipeline"
    /\ phase = "done"
    /\ posts # << >>
    /\ trace = <<"generate_analytics_summary", "save_posts_json", "save_posts_csv",
                 "save_analytics_summary_json", "save_analytics_summary_csv",
                 "save_to_database">>

\* the posts of the collectors that completed, in the order of their turns
RECURSIVE CompletedPosts(_)
CompletedPosts(log) ==
    IF log = << >> THEN << >>
    ELSE LET last == log[Len(log)]
         IN  CompletedPosts(SubSeq(log, 1, Len(log) - 1))
                 \o (IF last.outcome = "completed" THEN last.gathered ELSE << >>)

\* C28: collect_data isolates the failures of a collector: a collector whose
\* authenticate() is false or raises, or whose collection raises,
\* contributes no post (what it gathered for earlier queries is dropped),
\* every initialized collector is attempted, in order, and the result is the
\* concatenation, in collector order, of the posts of the collectors that
\* completed
C28_CollectorFailuresIsolated ==
    /\ phase \in {"authenticate", "collect"} => all_posts = CompletedPosts(attempts)
    /\ (phase = "done" /\ args.entry = "collect_data") =>
          /\ [k \in DOMAIN attempts |-> attempts[k].platform] = collectors
          /\ posts = CompletedPosts(attempts)

\* of three collectors twitter is denied, facebook raises on its second
\* query after a post for the first, and youtube completes with two posts:
\* the result is youtube's two posts
C28_Witness ==
    /\ phase = "done"
    /\ args.entry = "collect_data"
    /\ collectors = <<"twitter", "facebook", "youtube">>
    /\ [k \in DOMAIN attempts |-> attempts[k].outcome] = <<"denied", "raised", "completed">>
    /\ Len(attempts[2].gathered) = 1
    /\ Len(posts) = 2
    /\ \A i \in DOMAIN posts : posts[i].platform = "youtube"

====
